---- MODULE Spec2Model ----
(***************************************************************************)
(* The agent-run store (agents, agent_runs, agent_outputs) with the        *)
(* handlers that write it, and streamAgentRun, the async generator that    *)
(* polls the store and yields output / status_update / complete events.    *)
(*                                                                         *)
(* Every database statement of streamAgentRun is one step, and so is every *)
(* yield: between two of them the other handlers may run.                  *)
(***************************************************************************)
EXTENDS Integers, Sequences, FiniteSets, TLC

\* ------------------------------------------------------------------ bounds
\* The number of calls the external actor makes to the handlers that write,
\* the instants the clock is followed for included.
MaxCalls == 5

\* ------------------------------------------------------------- data model
\* A nullable timestamp column holding NULL; dates are the integers >= 1.
NullDate == 0

\* An optional timestamp input that is not supplied (JavaScript undefined).
UndefinedDate == -1

RunStatuses == {"pending", "running", "completed", "failed"}

OutputTypes == {"log", "result", "error"}

\* Text is a sequence of characters; the empty text is <<>>.
NewLine == "\n"

\* The inputs createAgentOutput is called with: a type and a content.
OutputInputs ==
  { [output_type |-> "log", content |-> <<"B">>],
    [output_type |-> "result", content |-> <<"A">>],
    [output_type |-> "result", content |-> <<>>] }

\* The value of an optional field that is not there (JavaScript undefined).
Undefined == <<"undefined">>

\* The callers whose handler calls may overlap.
Callers == {"c1", "c2"}

\* The subscriptions (generator objects) of the model.
Subs == {"s1", "s2"}

\* The subscriptions that are pulled.
StreamSubs == {"s1"}

VARIABLES
  agents,       \* agents table: sequence of rows, id = index
  runs,         \* agent_runs table: function from the ids of the rows to the rows
  runSerial,    \* last id the agent_runs serial column handed out
  outputs,      \* agent_outputs table: sequence of rows, id = index
  now,          \* the clock new Date() reads
  calls,        \* number of calls of the writing handlers made so far
  subs,         \* the generator objects: function from Subs to their state
  outcome,      \* how the last handler call ended: a row, null, or the error thrown
  inflight,     \* the handler calls between their select and their write
  dashboard     \* the state of the dashboard App: isRunning and its pollers

vars ==
  <<agents, runs, runSerial, outputs, now, calls, subs, outcome, inflight,
    dashboard>>

store == <<agents, runs, runSerial, outputs>>

\* ---------------------------------------------------------------- helpers
\* IsTerminal that knows completed only.
IsTerminalCompletedOnly(status) == status = "completed"

\* IsTerminal with running taken for a final status too.
IsTerminalOrRunning(status) == status # "pending"

\* The test the generator makes of a status: completed or failed.
IsTerminal(status) == status = "completed" \/ status = "failed"

\* OutputsOfRunAfter ordered by id descending.
OutputsOfRunAfterDesc(runId, after) ==
  LET asc == SelectSeq(outputs, LAMBDA o : o.run_id = runId /\ o.id > after)
  IN [i \in 1..Len(asc) |-> asc[Len(asc) + 1 - i]]

\* select ... from agent_outputs where run_id = runId [and id > after] order by id
OutputsOfRunAfter(runId, after) ==
  SelectSeq(outputs, LAMBDA o : o.run_id = runId /\ o.id > after)

RECURSIVE Join(_, _)
\* Array.prototype.join: the elements of list with sep between them.
Join(list, sep) ==
  IF list = <<>> THEN <<>>
  ELSE IF Len(list) = 1 THEN Head(list)
  ELSE Head(list) \o <<sep>> \o Join(Tail(list), sep)

\* rows.map(o => o.content)
Contents(rows) == [i \in 1..Len(rows) |-> rows[i].content]

\* JavaScript's  text || undefined : the empty string is falsy.
OrUndefined(text) == IF text = <<>> THEN Undefined ELSE text

\* rows.filter(o => o.output_type === 'result').map(o => o.content).join('\n') || undefined
FinalResult(rows) ==
  OrUndefined(
    Join(Contents(SelectSeq(rows, LAMBDA o : o.output_type = "result")),
         NewLine))

\* All the orders in which a select without ORDER BY may return rows.
Orders(rows) ==
  { p \in [1..Len(rows) -> 1..Len(rows)] :
      \A i, j \in 1..Len(rows) : i # j => p[i] # p[j] }

Reorder(rows, p) == [i \in 1..Len(rows) |-> rows[p[i]]]

\* ----------------------------------------------------------------- events
OutputEvent(runId, o) == [type |-> "output", run_id |-> runId, data |-> o]

StatusUpdateEvent(runId, status) ==
  [type |-> "status_update", run_id |-> runId, data |-> [status |-> status]]

CompleteEvent(runId, finalResult) ==
  [type |-> "complete", run_id |-> runId, data |-> [final_result |-> finalResult]]

\* ------------------------------------------------------------------- Init
\* No handler has been called yet.
NoCall == <<"no call">>

\* The handler returned the row it wrote.
ReturnedRow == <<"row">>

\* The handler returned null.
ReturnedNull == <<"null">>

\* A caller with no call between its select and its write.
NoInflight ==
  [ pc |-> "idle", agent_id |-> 0, id |-> 0, status |-> "pending",
    currentRun |-> <<>> ]

\* The is_active flags of the sample agents seedDatabase inserts at start-up.
SeedIsActive == <<TRUE, TRUE, TRUE, TRUE, FALSE>>

\* A generator object that streamAgentRun has not been called for yet.
NewSub ==
  [ pc |-> "idle", runId |-> 0, run |-> <<>>, lastOutputId |-> 0,
    lastStatus |-> "pending", isComplete |-> FALSE, rows |-> <<>>, next |-> 1,
    events |-> <<>>, error |-> <<>> ]

Init ==
  /\ agents = [id \in 1..Len(SeedIsActive) |->
       [id |-> id, is_active |-> SeedIsActive[id],
        created_at |-> 1, updated_at |-> 1]]
  /\ runs = <<>>
  /\ runSerial = 0
  /\ outputs = <<>>
  /\ now = 1
  /\ calls = 0
  /\ subs = [s \in Subs |-> NewSub]
  /\ outcome = NoCall
  /\ inflight = [c \in Callers |-> NoInflight]
  /\ dashboard = [isRunning |-> FALSE, polls |-> <<>>]

\* ------------------------------------------------------------ the handlers
\* startAgentRun that starts the run at once: the row is inserted as running.
startAgentRunStarted(agent_id) ==
  /\ calls < MaxCalls
  /\ agent_id \in 1..Len(agents)
  /\ agents[agent_id].is_active
  /\ runSerial' = runSerial + 1
  /\ runs' = [id \in DOMAIN runs \cup {runSerial + 1} |->
       IF id \in DOMAIN runs THEN runs[id]
       ELSE [id |-> id, agent_id |-> agent_id, status |-> "running",
             started_at |-> now, completed_at |-> NullDate,
             created_at |-> now, updated_at |-> now]]
  /\ calls' = calls + 1
  /\ outcome' = ReturnedRow
  /\ UNCHANGED <<agents, outputs, now, subs, inflight, dashboard>>

\* startAgentRun: throws unless the agent exists and is active; otherwise
\* inserts a pending run. A call that throws changes nothing.
startAgentRun(agent_id) ==
  /\ calls < MaxCalls
  /\ agent_id \in 1..Len(agents)
  /\ agents[agent_id].is_active
  /\ runSerial' = runSerial + 1
  /\ runs' = [id \in DOMAIN runs \cup {runSerial + 1} |->
       IF id \in DOMAIN runs THEN runs[id]
       ELSE [id |-> id, agent_id |-> agent_id, status |-> "pending",
             started_at |-> NullDate, completed_at |-> NullDate,
             created_at |-> now, updated_at |-> now]]
  /\ calls' = calls + 1
  /\ outcome' = ReturnedRow
  /\ UNCHANGED <<agents, outputs, now, subs, inflight, dashboard>>

AgentNotFoundError(agent_id) == <<"Agent with id ", agent_id, " not found">>

AgentNotActiveError(agent_id) == <<"Agent with id ", agent_id, " is not active">>

\* startAgentRun called with the id of no agent: it throws.
startAgentRunNotFound(agent_id) ==
  /\ agent_id \notin 1..Len(agents)
  /\ outcome' = AgentNotFoundError(agent_id)
  /\ UNCHANGED <<store, now, calls, subs, inflight, dashboard>>

\* startAgentRunNotActive that does not look at is_active: the run is made.
startAgentRunAnyway(agent_id) ==
  /\ calls < MaxCalls
  /\ agent_id \in 1..Len(agents)
  /\ ~agents[agent_id].is_active
  /\ runSerial' = runSerial + 1
  /\ runs' = [id \in DOMAIN runs \cup {runSerial + 1} |->
       IF id \in DOMAIN runs THEN runs[id]
       ELSE [id |-> id, agent_id |-> agent_id, status |-> "pending",
             started_at |-> NullDate, completed_at |-> NullDate,
             created_at |-> now, updated_at |-> now]]
  /\ calls' = calls + 1
  /\ outcome' = ReturnedRow
  /\ UNCHANGED <<agents, outputs, now, subs, inflight, dashboard>>

\* startAgentRun called with the id of an agent that is not active: it throws.
startAgentRunNotActive(agent_id) ==
  /\ agent_id \in 1..Len(agents)
  /\ ~agents[agent_id].is_active
  /\ outcome' = AgentNotActiveError(agent_id)
  /\ UNCHANGED <<store, now, calls, subs, inflight, dashboard>>

\* One call of startAgentRun, whichever way it ends.
StartAgentRunCall(agent_id) ==
  \/ startAgentRun(agent_id)
  \/ startAgentRunNotFound(agent_id)
  \/ startAgentRunNotActive(agent_id)

\* NewStartedAt that stamps every update to running, a stored started_at or not.
NewStartedAtEveryTime(currentRun, status, started_at) ==
  IF started_at # UndefinedDate THEN started_at
  ELSE IF status = "running" THEN now
  ELSE currentRun.started_at

\* The started_at that updateAgentRunStatus writes.
NewStartedAt(currentRun, status, started_at) ==
  IF started_at # UndefinedDate THEN started_at
  ELSE IF status = "running" /\ currentRun.started_at = NullDate THEN now
  ELSE currentRun.started_at

\* NewCompletedAt that stamps a run without completed_at at every update.
NewCompletedAtAnyStatus(currentRun, status, completed_at) ==
  IF completed_at # UndefinedDate THEN completed_at
  ELSE IF currentRun.completed_at = NullDate THEN now
  ELSE currentRun.completed_at

\* NewCompletedAt that takes an explicit null for a value not supplied.
NewCompletedAtNullAsAbsent(currentRun, status, completed_at) ==
  IF completed_at # UndefinedDate /\ completed_at # NullDate THEN completed_at
  ELSE IF (status = "completed" \/ status = "failed")
          /\ currentRun.completed_at = NullDate THEN now
  ELSE currentRun.completed_at

\* The completed_at that updateAgentRunStatus writes.
NewCompletedAt(currentRun, status, completed_at) ==
  IF completed_at # UndefinedDate THEN completed_at
  ELSE IF (status = "completed" \/ status = "failed")
          /\ currentRun.completed_at = NullDate THEN now
  ELSE currentRun.completed_at

\* updateAgentRunStatus: returns null when the run does not exist (nothing
\* changes); otherwise writes the status, the timestamps and updated_at.
updateAgentRunStatus(id, status, started_at, completed_at) ==
  /\ calls < MaxCalls
  /\ id \in DOMAIN runs
  /\ runs' = [runs EXCEPT ![id] =
       [@ EXCEPT !.status = status,
                 !.updated_at = now,
                 !.started_at = NewStartedAt(runs[id], status, started_at),
                 !.completed_at = NewCompletedAt(runs[id], status, completed_at)]]
  /\ calls' = calls + 1
  /\ outcome' = ReturnedRow
  /\ UNCHANGED <<agents, runSerial, outputs, now, subs, inflight, dashboard>>

\* updateAgentRunStatusNoRun that throws instead of returning null.
updateAgentRunStatusNoRunThrows(id) ==
  /\ id \notin DOMAIN runs
  /\ outcome' = <<"Agent run with ID ", id, " not found">>
  /\ UNCHANGED <<store, now, calls, subs, inflight, dashboard>>

\* updateAgentRunStatus called with the id of no run: it returns null.
updateAgentRunStatusNoRun(id) ==
  /\ id \notin DOMAIN runs
  /\ outcome' = ReturnedNull
  /\ UNCHANGED <<store, now, calls, subs, inflight, dashboard>>

\* One call of updateAgentRunStatus, whichever way it ends.
UpdateAgentRunStatusCall(id, status, started_at, completed_at) ==
  \/ updateAgentRunStatus(id, status, started_at, completed_at)
  \/ updateAgentRunStatusNoRun(id)

\* createAgentOutput that also marks a pending run as running.
createAgentOutputStartingRun(run_id, output_type, content, timestamp) ==
  /\ calls < MaxCalls
  /\ run_id \in DOMAIN runs
  /\ outputs' = Append(outputs,
       [id |-> Len(outputs) + 1, run_id |-> run_id,
        output_type |-> output_type, content |-> content,
        timestamp |-> IF timestamp = UndefinedDate THEN now ELSE timestamp,
        created_at |-> now])
  /\ runs' = [runs EXCEPT ![run_id] =
       IF runs[run_id].status = "pending"
       THEN [runs[run_id] EXCEPT !.status = "running", !.started_at = now]
       ELSE runs[run_id]]
  /\ calls' = calls + 1
  /\ outcome' = ReturnedRow
  /\ UNCHANGED <<agents, runSerial, now, subs, inflight, dashboard>>

\* createAgentOutput: throws when the run does not exist (nothing changes);
\* otherwise inserts one output row, its timestamp defaulting to the clock.
createAgentOutput(run_id, output_type, content, timestamp) ==
  /\ calls < MaxCalls
  /\ run_id \in DOMAIN runs
  /\ outputs' = Append(outputs,
       [id |-> Len(outputs) + 1, run_id |-> run_id,
        output_type |-> output_type, content |-> content,
        timestamp |-> IF timestamp = UndefinedDate THEN now ELSE timestamp,
        created_at |-> now])
  /\ calls' = calls + 1
  /\ outcome' = ReturnedRow
  /\ UNCHANGED <<agents, runs, runSerial, now, subs, inflight, dashboard>>

\* The error createAgentOutput throws.
RunNotFoundError(run_id) == <<"Agent run with ID ", run_id, " not found">>

\* createAgentOutputNotFound that does not look for the run: the row is inserted.
createAgentOutputOrphan(run_id) ==
  /\ calls < MaxCalls
  /\ run_id \notin DOMAIN runs
  /\ outputs' = Append(outputs,
       [id |-> Len(outputs) + 1, run_id |-> run_id,
        output_type |-> "log", content |-> <<"B">>,
        timestamp |-> now, created_at |-> now])
  /\ calls' = calls + 1
  /\ outcome' = ReturnedRow
  /\ UNCHANGED <<agents, runs, runSerial, now, subs, inflight, dashboard>>

\* createAgentOutput called with the id of no run: it throws.
createAgentOutputNotFound(run_id) ==
  /\ run_id \notin DOMAIN runs
  /\ outcome' = RunNotFoundError(run_id)
  /\ UNCHANGED <<store, now, calls, subs, inflight, dashboard>>

\* One call of createAgentOutput, whichever way it ends.
CreateAgentOutputCall(run_id, output_type, content, timestamp) ==
  \/ createAgentOutput(run_id, output_type, content, timestamp)
  \/ createAgentOutputNotFound(run_id)

\* The rows a query returned.
ReturnedRows(rows) == <<"rows", rows>>

\* OrdersByTimestamp without the orderBy: the rows come in the order of their ids.
OrdersByIdOnly(rowSet) ==
  { [i \in 1..Cardinality(rowSet) |->
       CHOOSE o \in rowSet : Cardinality({ x \in rowSet : x.id < o.id }) = i - 1] }

RECURSIVE OrdersByTimestamp(_)
\* All the orders in which a select with orderBy(asc(timestamp)) may return
\* the rows of the set rowSet: rows of one timestamp come in any order.
OrdersByTimestamp(rowSet) ==
  IF rowSet = {} THEN {<<>>}
  ELSE UNION { { <<o>> \o rest : rest \in OrdersByTimestamp(rowSet \ {o}) } :
               o \in { x \in rowSet :
                         \A y \in rowSet : x.timestamp <= y.timestamp } }

\* getAgentOutputs: the outputs of the run, ordered by timestamp; no check
\* that the run exists.
getAgentOutputs(runId) ==
  /\ \E rows \in OrdersByTimestamp(
                   { outputs[i] : i \in { j \in 1..Len(outputs) :
                                            outputs[j].run_id = runId } }) :
       outcome' = ReturnedRows(rows)
  /\ UNCHANGED <<store, now, calls, subs, inflight, dashboard>>

\* ------------------------------------------- the handlers, statement by statement
\* startAgentRun up to its insert: the select of the agent and the two checks.
\* No transaction holds the select and the insert together.
startAgentRunSelect(c, agent_id) ==
  /\ calls < MaxCalls
  /\ inflight[c].pc = "idle"
  /\ calls' = calls + 1
  /\ IF agent_id \notin 1..Len(agents)
     THEN outcome' = AgentNotFoundError(agent_id) /\ UNCHANGED inflight
     ELSE IF ~agents[agent_id].is_active
     THEN outcome' = AgentNotActiveError(agent_id) /\ UNCHANGED inflight
     ELSE /\ inflight' = [inflight EXCEPT ![c] =
               [NoInflight EXCEPT !.pc = "insert", !.agent_id = agent_id]]
          /\ UNCHANGED outcome
  /\ UNCHANGED <<store, now, subs, dashboard>>

\* startAgentRun from its insert on.
startAgentRunInsert(c) ==
  /\ inflight[c].pc = "insert"
  /\ runSerial' = runSerial + 1
  /\ runs' = [id \in DOMAIN runs \cup {runSerial + 1} |->
       IF id \in DOMAIN runs THEN runs[id]
       ELSE [id |-> id, agent_id |-> inflight[c].agent_id, status |-> "pending",
             started_at |-> NullDate, completed_at |-> NullDate,
             created_at |-> now, updated_at |-> now]]
  /\ inflight' = [inflight EXCEPT ![c] = NoInflight]
  /\ outcome' = ReturnedRow
  /\ UNCHANGED <<agents, outputs, now, calls, subs, dashboard>>

\* updateAgent with is_active alone: one update statement; null for no row.
updateAgent(id, is_active) ==
  /\ calls < MaxCalls
  /\ calls' = calls + 1
  /\ IF id \in 1..Len(agents)
     THEN /\ agents' = [agents EXCEPT ![id] =
               [agents[id] EXCEPT !.is_active = is_active, !.updated_at = now]]
          /\ outcome' = ReturnedRow
     ELSE /\ outcome' = ReturnedNull
          /\ UNCHANGED agents
  /\ UNCHANGED <<runs, runSerial, outputs, now, subs, inflight, dashboard>>

\* updateAgentRunStatus, without explicit timestamps, up to its update: the
\* select of the run, and null if there is none.
updateAgentRunStatusSelect(c, id, status) ==
  /\ calls < MaxCalls
  /\ inflight[c].pc = "idle"
  /\ calls' = calls + 1
  /\ IF id \notin DOMAIN runs
     THEN outcome' = ReturnedNull /\ UNCHANGED inflight
     ELSE /\ inflight' = [inflight EXCEPT ![c] =
               [NoInflight EXCEPT !.pc = "update", !.id = id, !.status = status,
                                  !.currentRun = <<runs[id]>>]]
          /\ UNCHANGED outcome
  /\ UNCHANGED <<store, now, subs, dashboard>>

\* The column the update writes when updateData has it, and leaves as it is
\* stored when updateData has not: updateData has it when the status is one
\* of stamping and the row read had none.
WrittenTimestamp(read, stored, stamping) ==
  IF stamping /\ read = NullDate THEN now ELSE stored

\* updateAgentRunStatus from its update on: updateData is built from the row
\* that was read, and set on the row as it is now.
updateAgentRunStatusUpdate(c) ==
  /\ inflight[c].pc = "update"
  /\ inflight[c].id \in DOMAIN runs
  /\ runs' = [runs EXCEPT ![inflight[c].id] =
       [runs[inflight[c].id] EXCEPT
          !.status = inflight[c].status,
          !.updated_at = now,
          !.started_at =
             WrittenTimestamp(inflight[c].currentRun[1].started_at,
                              runs[inflight[c].id].started_at,
                              inflight[c].status = "running"),
          !.completed_at =
             WrittenTimestamp(inflight[c].currentRun[1].completed_at,
                              runs[inflight[c].id].completed_at,
                              IsTerminal(inflight[c].status))]]
  /\ inflight' = [inflight EXCEPT ![c] = NoInflight]
  /\ outcome' = ReturnedRow
  /\ UNCHANGED <<agents, runSerial, outputs, now, calls, subs, dashboard>>

\* ---------------------------------------------------------- the dashboard
\* Where a callback of the interval stands: its getAgentRun query is sent, or
\* it has the run with the status read and awaits loadOutputs.
CallbackStates == {"sent"} \cup RunStatuses

\* What pollForOutputs(runId) sets up: an interval that is not cleared, the
\* five-minute timer that has not fired, and no callback under way.
NewPoll(runId) ==
  [ runId |-> runId, interval |-> TRUE, timer |-> TRUE,
    callbacks |-> [st \in CallbackStates |-> 0] ]

\* handleStartRun: the form is submitted (the button is disabled while
\* isRunning); startAgentRun is called, and when it throws nothing else
\* happens; otherwise isRunning is set and pollForOutputs starts.
handleStartRun(agent_id) ==
  /\ calls < MaxCalls
  /\ ~dashboard.isRunning
  /\ calls' = calls + 1
  /\ IF agent_id \notin 1..Len(agents)
     THEN /\ outcome' = AgentNotFoundError(agent_id)
          /\ UNCHANGED <<runs, runSerial, dashboard>>
     ELSE IF ~agents[agent_id].is_active
     THEN /\ outcome' = AgentNotActiveError(agent_id)
          /\ UNCHANGED <<runs, runSerial, dashboard>>
     ELSE /\ runSerial' = runSerial + 1
          /\ runs' = [id \in DOMAIN runs \cup {runSerial + 1} |->
               IF id \in DOMAIN runs THEN runs[id]
               ELSE [id |-> id, agent_id |-> agent_id, status |-> "pending",
                     started_at |-> NullDate, completed_at |-> NullDate,
                     created_at |-> now, updated_at |-> now]]
          /\ outcome' = ReturnedRow
          /\ dashboard' = [isRunning |-> TRUE,
                           polls |-> Append(dashboard.polls, NewPoll(runSerial + 1))]
  /\ UNCHANGED <<agents, outputs, now, subs, inflight>>

\* The dashboard with poll k changed to poll and isRunning to isRunning.
WithPoll(k, poll, isRunning) ==
  [isRunning |-> isRunning, polls |-> [dashboard.polls EXCEPT ![k] = poll]]

\* The interval of poll k fires: a callback starts and sends its query.
IntervalFires(k) ==
  /\ calls < MaxCalls
  /\ k \in 1..Len(dashboard.polls)
  /\ dashboard.polls[k].interval
  /\ calls' = calls + 1
  /\ dashboard' = WithPoll(k,
       [dashboard.polls[k] EXCEPT !.callbacks["sent"] = @ + 1],
       dashboard.isRunning)
  /\ UNCHANGED <<store, now, subs, outcome, inflight>>

\* getAgentRun answers a callback of poll k with the run as it is stored.
PollRead(k) ==
  /\ k \in 1..Len(dashboard.polls)
  /\ dashboard.polls[k].callbacks["sent"] > 0
  /\ dashboard.polls[k].runId \in DOMAIN runs
  /\ dashboard' = WithPoll(k,
       [dashboard.polls[k] EXCEPT
          !.callbacks["sent"] = @ - 1,
          !.callbacks[runs[dashboard.polls[k].runId].status] = @ + 1],
       dashboard.isRunning)
  /\ UNCHANGED <<store, now, calls, subs, outcome, inflight>>

\* A callback of poll k that read status goes on after loadOutputs: on a
\* terminal status it sets isRunning to false and clears its interval.
PollContinue(k, status) ==
  /\ k \in 1..Len(dashboard.polls)
  /\ status \in RunStatuses
  /\ dashboard.polls[k].callbacks[status] > 0
  /\ dashboard' = WithPoll(k,
       [dashboard.polls[k] EXCEPT
          !.callbacks[status] = @ - 1,
          !.interval = IF IsTerminal(status) THEN FALSE ELSE @],
       IF IsTerminal(status) THEN FALSE ELSE dashboard.isRunning)
  /\ UNCHANGED <<store, now, calls, subs, outcome, inflight>>

\* The query of a callback of poll k is rejected: the catch sets isRunning to
\* false and clears the interval.
PollError(k) ==
  /\ k \in 1..Len(dashboard.polls)
  /\ dashboard.polls[k].callbacks["sent"] > 0
  /\ dashboard' = WithPoll(k,
       [dashboard.polls[k] EXCEPT !.callbacks["sent"] = @ - 1,
                                  !.interval = FALSE],
       FALSE)
  /\ UNCHANGED <<store, now, calls, subs, outcome, inflight>>

\* The five-minute timer of poll k fires: it clears the interval and sets
\* isRunning to false.
AutoStop(k) ==
  /\ k \in 1..Len(dashboard.polls)
  /\ dashboard.polls[k].timer
  /\ dashboard' = WithPoll(k,
       [dashboard.polls[k] EXCEPT !.timer = FALSE, !.interval = FALSE],
       FALSE)
  /\ UNCHANGED <<store, now, calls, subs, outcome, inflight>>

\* --------------------------------------------------------- streamAgentRun
NotFoundError(runId) == <<"Agent run with ID ", runId, " not found">>

WasDeletedError(runId) == <<"Agent run with ID ", runId, " was deleted">>

\* select ... from agent_runs where id = runId
SelectRunById(runId) ==
  IF runId \in DOMAIN runs THEN <<runs[runId]>> ELSE <<>>

\* IdFilter without the gt(id) condition: every poll selects from the start.
IdFilterNone(lastOutputId) == 0

\* The id the polling query filters on: only a positive lastOutputId adds gt(id).
IdFilter(lastOutputId) == IF lastOutputId > 0 THEN lastOutputId ELSE 0

\* StatusChanged that never sees a change.
StatusNeverChanged(currentStatus, lastStatus) == FALSE

\* StatusChanged that sees a change at every read.
StatusAlwaysChanged(currentStatus, lastStatus) == TRUE

\* The test of the status read against the last status seen.
StatusChanged(currentStatus, lastStatus) == currentStatus # lastStatus

Yield(sub, event) == [sub EXCEPT !.events = Append(@, event)]

\* The router calls streamAgentRun(runId): a generator that has not run yet.
Subscribe(s, runId) ==
  /\ subs[s].pc = "idle"
  /\ subs' = [subs EXCEPT ![s] = [subs[s] EXCEPT !.pc = "start", !.runId = runId]]
  /\ UNCHANGED <<store, now, calls, outcome, inflight, dashboard>>

\* AfterSelectRun that returns at once, without an error, when there is no run.
AfterSelectRunSilent(sub, run) ==
  IF run = <<>>
  THEN [sub EXCEPT !.pc = "done"]
  ELSE [sub EXCEPT !.run = run,
                   !.lastOutputId = 0,
                   !.lastStatus = run[1].status,
                   !.isComplete = IsTerminal(run[1].status),
                   !.pc = IF IsTerminal(run[1].status) THEN "selectAll"
                          ELSE "selectNew"]

\* The first select of the run, and the set-up of the cursor.
AfterSelectRun(sub, run) ==
  IF run = <<>>
  THEN [sub EXCEPT !.pc = "failed", !.error = NotFoundError(sub.runId)]
  ELSE [sub EXCEPT !.run = run,
                   !.lastOutputId = 0,
                   !.lastStatus = run[1].status,
                   !.isComplete = IsTerminal(run[1].status),
                   !.pc = IF IsTerminal(run[1].status) THEN "selectAll"
                          ELSE "selectNew"]

SelectRun(s) ==
  /\ subs[s].pc = "start"
  /\ subs' = [subs EXCEPT ![s] = AfterSelectRun(subs[s], SelectRunById(subs[s].runId))]
  /\ UNCHANGED <<store, now, calls, outcome, inflight, dashboard>>

\* Already complete: select all the outputs of the run, ordered by id.
SelectAll(s) ==
  /\ subs[s].pc = "selectAll"
  /\ subs' = [subs EXCEPT ![s] =
       [subs[s] EXCEPT !.rows = OutputsOfRunAfter(subs[s].runId, 0),
                       !.next = 1, !.pc = "yieldAll"]]
  /\ UNCHANGED <<store, now, calls, outcome, inflight, dashboard>>

\* Already complete: yield the next of the outputs selected.
YieldAll(s) ==
  /\ subs[s].pc = "yieldAll"
  /\ subs[s].next <= Len(subs[s].rows)
  /\ subs' = [subs EXCEPT ![s] =
       [Yield(subs[s], OutputEvent(subs[s].runId, subs[s].rows[subs[s].next]))
          EXCEPT !.next = subs[s].next + 1]]
  /\ UNCHANGED <<store, now, calls, outcome, inflight, dashboard>>

\* Already complete: yield complete and return.
YieldComplete(s) ==
  /\ subs[s].pc = "yieldAll"
  /\ subs[s].next > Len(subs[s].rows)
  /\ subs' = [subs EXCEPT ![s] =
       [Yield(subs[s], CompleteEvent(subs[s].runId, FinalResult(subs[s].rows)))
          EXCEPT !.pc = "done"]]
  /\ UNCHANGED <<store, now, calls, outcome, inflight, dashboard>>

\* Polling: select the outputs of the run after the cursor, ordered by id.
SelectNew(s) ==
  /\ subs[s].pc = "selectNew"
  /\ subs' = [subs EXCEPT ![s] =
       [subs[s] EXCEPT
          !.rows = OutputsOfRunAfter(subs[s].runId, IdFilter(subs[s].lastOutputId)),
          !.next = 1, !.pc = "yieldNew"]]
  /\ UNCHANGED <<store, now, calls, outcome, inflight, dashboard>>

\* Polling: yield the next new output and move the cursor to it.
YieldNew(s) ==
  /\ subs[s].pc = "yieldNew"
  /\ subs[s].next <= Len(subs[s].rows)
  /\ subs' = [subs EXCEPT ![s] =
       [Yield(subs[s], OutputEvent(subs[s].runId, subs[s].rows[subs[s].next]))
          EXCEPT !.lastOutputId = subs[s].rows[subs[s].next].id,
                 !.next = subs[s].next + 1]]
  /\ UNCHANGED <<store, now, calls, outcome, inflight, dashboard>>

\* AfterSelectStatus that goes on polling when the run is no longer there.
AfterSelectStatusNoCheck(sub, currentRun) ==
  IF currentRun = <<>>
  THEN [sub EXCEPT !.pc = "wait"]
  ELSE LET currentStatus == currentRun[1].status
           seen == IF StatusChanged(currentStatus, sub.lastStatus)
                   THEN [Yield(sub, StatusUpdateEvent(sub.runId, currentStatus))
                           EXCEPT !.lastStatus = currentStatus]
                   ELSE sub
       IN [seen EXCEPT !.isComplete = IsTerminal(currentStatus),
                       !.pc = IF IsTerminal(currentStatus) THEN "selectFinal"
                              ELSE "wait"]

\* AfterSelectStatus that announces no status that ends the run.
AfterSelectStatusQuietAtEnd(sub, currentRun) ==
  IF currentRun = <<>>
  THEN [sub EXCEPT !.pc = "failed", !.error = WasDeletedError(sub.runId)]
  ELSE LET currentStatus == currentRun[1].status
           seen == IF StatusChanged(currentStatus, sub.lastStatus)
                      /\ ~IsTerminal(currentStatus)
                   THEN [Yield(sub, StatusUpdateEvent(sub.runId, currentStatus))
                           EXCEPT !.lastStatus = currentStatus]
                   ELSE sub
       IN [seen EXCEPT !.isComplete = IsTerminal(currentStatus),
                       !.pc = IF IsTerminal(currentStatus) THEN "selectFinal"
                              ELSE "wait"]

\* Polling: the state after the status has been read again.
AfterSelectStatus(sub, currentRun) ==
  IF currentRun = <<>>
  THEN [sub EXCEPT !.pc = "failed", !.error = WasDeletedError(sub.runId)]
  ELSE LET currentStatus == currentRun[1].status
           seen == IF StatusChanged(currentStatus, sub.lastStatus)
                   THEN [Yield(sub, StatusUpdateEvent(sub.runId, currentStatus))
                           EXCEPT !.lastStatus = currentStatus]
                   ELSE sub
       IN [seen EXCEPT !.isComplete = IsTerminal(currentStatus),
                       !.pc = IF IsTerminal(currentStatus) THEN "selectFinal"
                              ELSE "wait"]

\* Polling: after the last new output, read the run again.
SelectStatus(s) ==
  /\ subs[s].pc = "yieldNew"
  /\ subs[s].next > Len(subs[s].rows)
  /\ subs' = [subs EXCEPT ![s] =
       AfterSelectStatus(subs[s], SelectRunById(subs[s].runId))]
  /\ UNCHANGED <<store, now, calls, outcome, inflight, dashboard>>

\* Polling: the run is complete; select its outputs (no ORDER BY, so in any
\* order), yield complete and leave the loop.
SelectFinal(s) ==
  /\ subs[s].pc = "selectFinal"
  /\ \E p \in Orders(OutputsOfRunAfter(subs[s].runId, 0)) :
       LET finalOutputs == Reorder(OutputsOfRunAfter(subs[s].runId, 0), p)
       IN subs' = [subs EXCEPT ![s] =
            [Yield(subs[s], CompleteEvent(subs[s].runId, FinalResult(finalOutputs)))
               EXCEPT !.pc = "done"]]
  /\ UNCHANGED <<store, now, calls, outcome, inflight, dashboard>>

\* Wait whose timer never fires.
WaitNeverFires(s) ==
  /\ subs[s].pc = "wait"
  /\ UNCHANGED vars

\* Polling: the one-second wait before the next poll.
Wait(s) ==
  /\ subs[s].pc = "wait"
  /\ subs' = [subs EXCEPT ![s] = [subs[s] EXCEPT !.pc = "selectNew"]]
  /\ UNCHANGED <<store, now, calls, outcome, inflight, dashboard>>

\* Abandon that cancels the run the subscription was watching.
AbandonCancellingRun(s) ==
  /\ subs[s].pc \notin {"idle", "done", "failed", "returned"}
  /\ subs' = [subs EXCEPT ![s] = [subs[s] EXCEPT !.pc = "returned"]]
  /\ runs' = [id \in DOMAIN runs |->
       IF id = subs[s].runId THEN [runs[id] EXCEPT !.status = "failed"]
       ELSE runs[id]]
  /\ UNCHANGED <<agents, runSerial, outputs, now, calls, outcome, inflight, dashboard>>

\* The consumer leaves: the generator is returned where it stands, before
\* its first pull, at a yield, or in the wait. There is no finally block,
\* so nothing runs after that.
Abandon(s) ==
  /\ subs[s].pc \notin {"idle", "done", "failed", "returned"}
  /\ subs' = [subs EXCEPT ![s] = [subs[s] EXCEPT !.pc = "returned"]]
  /\ UNCHANGED <<store, now, calls, outcome, inflight, dashboard>>

\* One step of the generator s.
StreamStep(s) ==
  \/ SelectRun(s)
  \/ SelectAll(s)
  \/ YieldAll(s)
  \/ YieldComplete(s)
  \/ SelectNew(s)
  \/ YieldNew(s)
  \/ SelectStatus(s)
  \/ SelectFinal(s)
  \/ Wait(s)

\* ------------------------------------------------------------ specification
\* The agents runs are started for: an active one and the inactive one.
StreamAgentIds == {1, 5}

\* The run ids the handlers are called with.
RunIds == {1, 2}

\* The handlers are called without explicit timestamps, and the clock stands
\* still: streamAgentRun reads neither.
Next ==
  \/ \E agent_id \in StreamAgentIds : startAgentRun(agent_id)
  \/ \E id \in RunIds, status \in RunStatuses :
       updateAgentRunStatus(id, status, UndefinedDate, UndefinedDate)
  \/ \E run_id \in RunIds, i \in OutputInputs :
       createAgentOutput(run_id, i.output_type, i.content, UndefinedDate)
  \/ \E s \in StreamSubs, runId \in RunIds : Subscribe(s, runId)
  \/ \E s \in StreamSubs : SelectRun(s)
  \/ \E s \in StreamSubs : SelectAll(s)
  \/ \E s \in StreamSubs : YieldAll(s)
  \/ \E s \in StreamSubs : YieldComplete(s)
  \/ \E s \in StreamSubs : SelectNew(s)
  \/ \E s \in StreamSubs : YieldNew(s)
  \/ \E s \in StreamSubs : SelectStatus(s)
  \/ \E s \in StreamSubs : SelectFinal(s)
  \/ \E s \in StreamSubs : Wait(s)

Spec == Init /\ [][Next]_vars

\* A subscription that keeps being pulled: the consumer asks for the next
\* event, the selects return and the timer of the wait fires.
Fairness == \A s \in StreamSubs : WF_vars(StreamStep(s))

FairSpec == Init /\ [][Next]_vars /\ Fairness

\* A run row is deleted in the database. No handler does this; the foreign
\* key of agent_outputs.run_id allows it only for a run without outputs.
DeleteRun(id) ==
  /\ id \in DOMAIN runs
  /\ \A i \in 1..Len(outputs) : outputs[i].run_id # id
  /\ runs' = [r \in DOMAIN runs \ {id} |-> runs[r]]
  /\ UNCHANGED <<agents, runSerial, outputs, now, calls, subs, outcome, inflight, dashboard>>

NextDel ==
  \/ Next
  \/ \E id \in RunIds : DeleteRun(id)

\* The handlers, with the rows of agent_runs open to deletion from outside.
SpecDel == Init /\ [][NextDel]_vars

NextAbandon ==
  \/ Next
  \/ \E s \in StreamSubs : Abandon(s)

\* The handlers and a subscription that its consumer may leave at any point.
SpecAbandon == Init /\ [][NextAbandon]_vars

\* Two subscriptions that read the same states of the store: "s2" takes
\* every step of "s1" right after it, before any handler writes.
NextPair ==
  \/ /\ subs["s1"] = subs["s2"]
     /\ Next
  \/ /\ subs["s1"] # subs["s2"]
     /\ \/ Subscribe("s2", subs["s1"].runId)
        \/ StreamStep("s2")

SpecPair == Init /\ [][NextPair]_vars

\* Time passes: new Date() reads a later instant. An instant counts as a
\* call, so that the clock is followed no further than the calls are.
Tick ==
  /\ calls < MaxCalls
  /\ now' = now + 1
  /\ calls' = calls + 1
  /\ UNCHANGED <<store, subs, outcome, inflight, dashboard>>

\* The agents startAgentRun is called for: an active one, the inactive one
\* and one that does not exist.
LifeAgentIds == {1, 5, 6}

\* A date a caller supplies, which the clock never shows.
CustomDate == 100

\* The optional nullable timestamps of UpdateAgentRunInput: not supplied,
\* null, or a date.
TimestampInputs == {UndefinedDate, NullDate, CustomDate}

LifeNext ==
  \/ \E agent_id \in LifeAgentIds : startAgentRun(agent_id)
  \/ \E agent_id \in LifeAgentIds : startAgentRunNotFound(agent_id)
  \/ \E agent_id \in LifeAgentIds : startAgentRunNotActive(agent_id)
  \/ \E id \in RunIds, status \in RunStatuses,
        started_at \in TimestampInputs, completed_at \in TimestampInputs :
       updateAgentRunStatus(id, status, started_at, completed_at)
  \/ \E id \in RunIds : updateAgentRunStatusNoRun(id)
  \/ Tick

\* The life cycle of the runs: the handlers that write agent_runs, called
\* one after the other with any input, while time passes.
LifeSpec == Init /\ [][LifeNext]_vars

\* The optional timestamp of CreateAgentOutputInput: not supplied, or a date.
OutputTimestampInputs == {UndefinedDate, CustomDate}

\* The types createAgentOutput is called with where the content plays no part.
OutTypes == {"log", "result"}

\* The statuses updateAgentRunStatus is called with there.
OutStatuses == {"running", "completed"}

OutNext ==
  \/ \E agent_id \in StreamAgentIds : startAgentRun(agent_id)
  \/ \E id \in RunIds, status \in OutStatuses :
       updateAgentRunStatus(id, status, UndefinedDate, UndefinedDate)
  \/ \E run_id \in RunIds, output_type \in OutTypes,
        timestamp \in OutputTimestampInputs :
       createAgentOutput(run_id, output_type, <<"A">>, timestamp)
  \/ \E run_id \in RunIds : createAgentOutputNotFound(run_id)
  \/ \E runId \in RunIds : getAgentOutputs(runId)

\* The outputs of the runs: the handlers that write and read agent_outputs,
\* with the handlers that write agent_runs. The clock stands still, so that
\* outputs stamped by it tie, and a date supplied is later than it.
OutSpec == Init /\ [][OutNext]_vars

\* The agent the overlapping calls are about.
RaceAgentIds == {1}

RaceNext ==
  \/ \E c \in Callers, agent_id \in RaceAgentIds : startAgentRunSelect(c, agent_id)
  \/ \E c \in Callers : startAgentRunInsert(c)
  \/ \E id \in RaceAgentIds, is_active \in BOOLEAN : updateAgent(id, is_active)
  \/ \E c \in Callers, id \in RunIds, status \in RunStatuses :
       updateAgentRunStatusSelect(c, id, status)
  \/ \E c \in Callers : updateAgentRunStatusUpdate(c)
  \/ Tick

\* Calls of two callers that overlap: between the select and the write of
\* one call, the other caller's statements and updateAgent may run.
RaceSpec == Init /\ [][RaceNext]_vars

\* The pollers of the dashboard in a session.
PollIds == {1, 2}

\* The statuses the worker of a run reports.
DashStatuses == {"running", "completed"}

DashNext ==
  \/ \E agent_id \in StreamAgentIds : handleStartRun(agent_id)
  \/ \E id \in RunIds, status \in DashStatuses :
       updateAgentRunStatus(id, status, UndefinedDate, UndefinedDate)
  \/ \E k \in PollIds : IntervalFires(k)
  \/ \E k \in PollIds : PollRead(k)
  \/ \E k \in PollIds, status \in RunStatuses : PollContinue(k, status)
  \/ \E k \in PollIds : PollError(k)
  \/ \E k \in PollIds : AutoStop(k)

\* One dashboard, its user starting runs, and the worker of the runs.
DashSpec == Init /\ [][DashNext]_vars

\* --------------------------------------------------- reading the event log
\* The events of one type among events, in order.
EventsOfType(events, type) == SelectSeq(events, LAMBDA e : e.type = type)

\* The ids of the outputs delivered by events, in order of delivery.
DeliveredIds(events) ==
  [i \in 1..Len(EventsOfType(events, "output")) |->
     EventsOfType(events, "output")[i].data.id]

\* The statuses announced by events, in order.
AnnouncedStatuses(events) ==
  [i \in 1..Len(EventsOfType(events, "status_update")) |->
     EventsOfType(events, "status_update")[i].data.status]

\* The rows of agent_outputs that belong to run runId.
StoredOutputsOf(runId) ==
  { outputs[i] : i \in { j \in 1..Len(outputs) : outputs[j].run_id = runId } }

StrictlyIncreasing(ids) ==
  \A i, j \in 1..Len(ids) : i < j => ids[i] < ids[j]

\* The subscription started on a run that was already completed or failed.
StartedTerminal(sub) ==
  sub.run # <<>> /\ sub.run[1].status \in {"completed", "failed"}

\* The subscription started on a run that was pending or running.
StartedLive(sub) ==
  sub.run # <<>> /\ sub.run[1].status \in {"pending", "running"}

\* ------------------------------------------------------------------ claims
\* C1: when the polling loop has read a terminal status and emits complete,
\* every output of the run that is in the store at that moment has already
\* been delivered as an output event of the subscription.
C1_AllOutputsDeliveredAtComplete ==
  [][\A s \in Subs :
       (subs[s].pc = "selectFinal" /\ subs'[s].pc = "done")
         => \A o \in StoredOutputsOf(subs[s].runId) :
              \E i \in 1..Len(DeliveredIds(subs'[s].events)) :
                DeliveredIds(subs'[s].events)[i] = o.id]_vars

\* The events of a subscription that started on a completed or failed run:
\* the rows it selected so far as it has yielded them, in ascending id order,
\* then complete once it has ended, and no status_update.
C2_Shape(sub) ==
  LET yielded == IF sub.pc = "selectAll" THEN 0
                 ELSE IF sub.pc = "yieldAll" THEN sub.next - 1
                 ELSE Len(sub.rows)
  IN /\ sub.pc \in {"selectAll", "yieldAll", "done"}
     /\ EventsOfType(sub.events, "status_update") = <<>>
     /\ DeliveredIds(sub.events) = [i \in 1..yielded |-> sub.rows[i].id]
     /\ StrictlyIncreasing(DeliveredIds(sub.events))
     /\ \A i \in 1..yielded :
          sub.events[i] = [type |-> "output", run_id |-> sub.runId,
                           data |-> outputs[sub.rows[i].id]]
     /\ \A i \in 1..Len(sub.rows) : sub.rows[i].run_id = sub.runId
     /\ IF sub.pc = "done"
        THEN /\ Len(sub.events) = yielded + 1
             /\ sub.events[yielded + 1].type = "complete"
        ELSE Len(sub.events) = yielded

\* C2: a subscription to a run that is already completed or failed yields one
\* output event per output the run had when they were read, in ascending id
\* order, then one complete event, and ends; it yields no status_update, and
\* nothing more after the end, whatever is inserted later.
C2_AlreadyTerminalStream ==
  [][\A s \in Subs :
       /\ StartedTerminal(subs'[s]) => C2_Shape(subs'[s])
       /\ (StartedTerminal(subs[s]) /\ subs[s].pc = "selectAll"
             /\ subs'[s].pc = "yieldAll")
            => { subs'[s].rows[i] : i \in 1..Len(subs'[s].rows) }
                 = StoredOutputsOf(subs[s].runId)
       /\ (StartedTerminal(subs[s]) /\ subs[s].pc = "done")
            => subs'[s] = subs[s]]_vars

\* C2's case: an already completed run was streamed to the end, one output
\* was delivered, and an output inserted after the read was not.
C2_Witness ==
  \E s \in Subs :
    /\ StartedTerminal(subs[s])
    /\ subs[s].pc = "done"
    /\ Len(subs[s].rows) = 1
    /\ Cardinality(StoredOutputsOf(subs[s].runId)) = 2

\* C3: the ids of the output events of a subscription are strictly
\* increasing, so no output is delivered twice.
C3_OutputIdsIncrease ==
  \A s \in Subs : StrictlyIncreasing(DeliveredIds(subs[s].events))

\* C3's case: two outputs delivered in two different poll iterations.
C3_Witness ==
  \E s \in Subs :
    /\ StartedLive(subs[s])
    /\ \E i, j, k \in 1..Len(subs[s].events) :
         /\ i < j /\ j < k
         /\ subs[s].events[i].type = "output"
         /\ subs[s].events[j].type = "status_update"
         /\ subs[s].events[k].type = "output"

\* C4: complete is emitted at most once, only after the subscription has read
\* a status of completed or failed, and no event follows it.
C4_CompleteOnceAndLast ==
  \A s \in Subs :
    \A i \in 1..Len(subs[s].events) :
      subs[s].events[i].type = "complete"
        => /\ i = Len(subs[s].events)
           /\ subs[s].pc = "done"
           /\ subs[s].lastStatus \in {"completed", "failed"}

\* C4's case: a polling subscription that has emitted complete, after which
\* the run was given another status.
C4_Witness ==
  \E s \in Subs :
    /\ StartedLive(subs[s])
    /\ subs[s].pc = "done"
    /\ subs[s].events[Len(subs[s].events)].type = "complete"
    /\ runs[subs[s].runId].status = "pending"

\* C5 as stated: every subscription that is pulled ends, whatever the
\* external actor does.
C5_AlwaysTerminates ==
  \A s \in StreamSubs :
    [](subs[s].pc = "start" => <>(subs[s].pc \in {"done", "failed"}))

\* The subscribed run is stored with a status of completed or failed.
StoredTerminal(s) ==
  /\ subs[s].pc # "idle"
  /\ subs[s].runId \in DOMAIN runs
  /\ runs[subs[s].runId].status \in {"completed", "failed"}

\* C5, amended: a subscription that keeps being pulled ends if the status of
\* its run is, from some moment on, always completed or failed.
C5_TerminatesOnceTerminal ==
  \A s \in StreamSubs :
    <>[]StoredTerminal(s) => <>(subs[s].pc \in {"done", "failed"})

\* C5's case: a polling subscription that has ended on a failed run.
C5_Witness ==
  \E s \in StreamSubs :
    /\ StartedLive(subs[s])
    /\ subs[s].pc = "done"
    /\ subs[s].lastStatus = "failed"

\* C6: for a run id with no run record the first pull fails with the
\* not-found error; the subscription yields no event and never ends normally.
C6_NotFoundOnFirstPull ==
  [][\A s \in Subs :
       /\ (subs[s].pc = "start" /\ subs[s].runId \notin DOMAIN runs
             /\ subs'[s] # subs[s])
            => /\ subs'[s].pc = "failed"
               /\ subs'[s].error
                    = <<"Agent run with ID ", subs[s].runId, " not found">>
               /\ subs'[s].events = <<>>
       /\ subs[s].pc = "failed" => subs'[s] = subs[s]]_vars

\* C6's case: the first pull has failed for a run id that had no record; a
\* run with that id was started afterwards.
C6_Witness ==
  \E s \in Subs :
    /\ subs[s].pc = "failed"
    /\ subs[s].error = <<"Agent run with ID ", subs[s].runId, " not found">>
    /\ subs[s].events = <<>>
    /\ subs[s].runId \in DOMAIN runs

\* C7: a subscription opened on a pending run that has ended has at least one
\* status_update event and exactly one complete event, which is its last
\* event, so every output event comes before it; before the end there is no
\* complete event.
C7_PendingToCompleteShape ==
  \A s \in Subs :
    (subs[s].run # <<>> /\ subs[s].run[1].status = "pending")
      => LET events == subs[s].events
         IN IF subs[s].pc = "done"
            THEN /\ Len(EventsOfType(events, "status_update")) >= 1
                 /\ Len(EventsOfType(events, "complete")) = 1
                 /\ events[Len(events)].type = "complete"
            ELSE EventsOfType(events, "complete") = <<>>

\* C7's case: the subscription saw pending -> running -> completed, with an
\* output in between, and has ended.
C7_Witness ==
  \E s \in Subs :
    /\ subs[s].run # <<>> /\ subs[s].run[1].status = "pending"
    /\ subs[s].pc = "done"
    /\ AnnouncedStatuses(subs[s].events) = <<"running", "completed">>
    /\ Len(DeliveredIds(subs[s].events)) >= 1

\* The last status the subscription saw: the last one announced, or the one
\* read at the start.
LastSeen(sub) ==
  IF AnnouncedStatuses(sub.events) = <<>> THEN sub.run[1].status
  ELSE AnnouncedStatuses(sub.events)[Len(AnnouncedStatuses(sub.events))]

\* C8: a status_update is emitted exactly when a poll reads a status that
\* differs from the last one the subscription saw: the first never carries
\* the status read at the start, and no two in a row carry the same status.
C8_StatusUpdateOnChange ==
  [][\A s \in Subs :
       LET before == AnnouncedStatuses(subs[s].events)
           after == AnnouncedStatuses(subs'[s].events)
           reads == /\ subs[s].pc = "yieldNew"
                    /\ subs[s].next > Len(subs[s].rows)
                    /\ subs[s].runId \in DOMAIN runs
                    /\ subs'[s] # subs[s]
       IN /\ reads =>
               after = IF runs[subs[s].runId].status # LastSeen(subs[s])
                       THEN Append(before, runs[subs[s].runId].status)
                       ELSE before
          /\ ~reads => after = before
          /\ after # <<>> =>
               /\ after[1] # subs'[s].run[1].status
               /\ \A i \in 1..(Len(after) - 1) : after[i] # after[i + 1]]_vars

\* C8's case: the run went pending -> running -> pending under a
\* subscription opened in pending; both changes were announced.
C8_Witness ==
  \E s \in Subs :
    /\ subs[s].run # <<>> /\ subs[s].run[1].status = "pending"
    /\ AnnouncedStatuses(subs[s].events) = <<"running", "pending">>
    /\ subs[s].pc = "wait"

\* The final_result C9 describes for the outputs rows, given in id order.
JoinedResults(rows) ==
  IF SelectSeq(rows, LAMBDA o : o.output_type = "result") = <<>>
  THEN Undefined
  ELSE Join(Contents(SelectSeq(rows, LAMBDA o : o.output_type = "result")),
            NewLine)

\* C9: the final_result of complete is the contents of the result outputs of
\* the run joined by a newline in ascending id order, and is absent when the
\* run has no result output; in the already-complete branch the outputs are
\* those the subscription selected, in the polling loop those in the store.
C9_FinalResultIsJoinOfResults ==
  [][\A s \in Subs :
       (subs[s].pc # "done" /\ subs'[s].pc = "done")
         => subs'[s].events[Len(subs'[s].events)].data.final_result
              = JoinedResults(IF subs[s].pc = "yieldAll" THEN subs[s].rows
                              ELSE SelectSeq(outputs,
                                     LAMBDA o : o.run_id = subs[s].runId))]_vars

\* C10: when the run record is gone at the status re-read of the polling
\* loop, the pull fails with an error: no complete, no further polling.
C10_DeletedRunFails ==
  [][\A s \in Subs :
       /\ (subs[s].pc = "yieldNew" /\ subs[s].next > Len(subs[s].rows)
             /\ subs[s].runId \notin DOMAIN runs /\ subs'[s] # subs[s])
            => /\ subs'[s].pc = "failed"
               /\ subs'[s].error # <<>>
               /\ subs'[s].events = subs[s].events
       /\ subs[s].pc = "failed" => subs'[s] = subs[s]]_vars

\* C10's case: a polling subscription failed because its run was deleted.
C10_Witness ==
  \E s \in Subs :
    /\ StartedLive(subs[s])
    /\ subs[s].pc = "failed"
    /\ subs[s].error = <<"Agent run with ID ", subs[s].runId, " was deleted">>
    /\ subs[s].runId \notin DOMAIN runs

\* C11: no step of a subscription, be it the subscribing, a pull (a select or
\* a yield), the wait, or the consumer leaving at any point, changes a row
\* of agents, agent_runs or agent_outputs, nor the serial of agent_runs.
C11_StreamNeverWrites ==
  [][\A s \in Subs : subs'[s] # subs[s] => store' = store]_vars

\* A subscription left after it had delivered an event of a run that has
\* outputs.
C11_Witness ==
  \E s \in Subs :
    /\ subs[s].pc = "returned"
    /\ subs[s].events # <<>>
    /\ subs[s].runId \in DOMAIN runs
    /\ runs[subs[s].runId].status = "running"
    /\ StoredOutputsOf(subs[s].runId) # {}

\* C12: subscriptions to the same run are independent: a step of one changes
\* neither the cursor (lastOutputId, lastStatus) nor the events of another,
\* and two subscriptions that read the same states of the store have the
\* same events: when "s2" has caught up with the step "s1" took on the same
\* state, the two generators are in the same state.
C12_IndependentSubscriptions ==
  [][/\ \A s, t \in Subs :
          (s # t /\ subs'[s] # subs[s]) => subs'[t] = subs[t]
     /\ subs["s1"] # subs["s2"] => subs'["s1"] = subs'["s2"]]_vars

\* C13: a startAgentRun call with the id of no agent throws the not-found
\* error, and one with the id of an agent whose is_active is false throws the
\* not-active error; either call leaves the store as it was, and no run is
\* ever created for an agent that is missing or not active.
C13_StartRejected ==
  [][/\ \A agent_id \in LifeAgentIds :
          (StartAgentRunCall(agent_id) /\ agent_id \notin 1..Len(agents))
            => (outcome' = AgentNotFoundError(agent_id) /\ store' = store)
     /\ \A agent_id \in LifeAgentIds :
          (/\ StartAgentRunCall(agent_id)
           /\ agent_id \in 1..Len(agents)
           /\ ~agents[agent_id].is_active)
            => (outcome' = AgentNotActiveError(agent_id) /\ store' = store)
     /\ \A id \in DOMAIN runs' \ DOMAIN runs :
          /\ runs'[id].agent_id \in 1..Len(agents)
          /\ agents[runs'[id].agent_id].is_active]_vars

\* The not-active error has just been thrown in a store that has a run.
C13_Witness ==
  /\ outcome = AgentNotActiveError(5)
  /\ runs # <<>>
  /\ \A id \in DOMAIN runs : runs[id].agent_id # 5

\* C14: a startAgentRun call that succeeds adds exactly one row to
\* agent_runs, under an id no row had, with status pending, started_at and
\* completed_at null and the agent_id of the call; every row that was there
\* is unchanged.
C14_StartCreatesOnePendingRun ==
  [][\A agent_id \in LifeAgentIds :
       (StartAgentRunCall(agent_id) /\ outcome' = ReturnedRow)
         => \E id \in DOMAIN runs' :
              /\ id \notin DOMAIN runs
              /\ DOMAIN runs' = DOMAIN runs \cup {id}
              /\ runs'[id].id = id
              /\ runs'[id].status = "pending"
              /\ runs'[id].started_at = NullDate
              /\ runs'[id].completed_at = NullDate
              /\ runs'[id].agent_id = agent_id
              /\ \A r \in DOMAIN runs : runs'[r] = runs[r]]_vars

\* A second run has been created, pending, next to a first one that is
\* completed and keeps its timestamps.
C14_Witness ==
  /\ DOMAIN runs = {1, 2}
  /\ runs[1].status = "completed"
  /\ runs[1].completed_at # NullDate
  /\ runs[2].status = "pending"
  /\ runs[2].started_at = NullDate
  /\ runs[2].created_at > runs[1].updated_at
  /\ outcome = ReturnedRow

\* C15: an updateAgentRunStatus call without an explicit started_at leaves a
\* started_at that is set as it is, and a call without an explicit
\* completed_at leaves a completed_at that is set as it is, whatever the
\* status of the call and however much later it comes: a step that changes
\* a timestamp that was set is no such call.
C15_SetOnce ==
  [][\A id \in DOMAIN runs :
       /\ (/\ runs[id].started_at # NullDate
           /\ runs'[id].started_at # runs[id].started_at)
            => \A status \in RunStatuses, other \in TimestampInputs :
                 ~updateAgentRunStatus(id, status, UndefinedDate, other)
       /\ (/\ runs[id].completed_at # NullDate
           /\ runs'[id].completed_at # runs[id].completed_at)
            => \A status \in RunStatuses, other \in TimestampInputs :
                 ~updateAgentRunStatus(id, status, other, UndefinedDate)]_vars

\* A run whose started_at was set by the clock has been updated to running
\* again at a later instant, and still has the first started_at.
C15_Witness ==
  \E id \in DOMAIN runs :
    /\ runs[id].status = "running"
    /\ runs[id].started_at \notin {NullDate, CustomDate}
    /\ runs[id].updated_at > runs[id].started_at
    /\ runs[id].updated_at = now

\* C16: in every reachable state, a run whose status is pending has
\* started_at null.
C16_PendingHasNoStartedAt ==
  \A id \in DOMAIN runs :
    runs[id].status = "pending" => runs[id].started_at = NullDate

\* C17: completed_at of a run is null in every state before its status first
\* becomes completed or failed: it starts null, and leaves null only in a
\* step that writes the status completed or failed.
C17_CompletedAtNullBeforeTerminal ==
  [][\A id \in DOMAIN runs :
       (runs[id].completed_at = NullDate /\ runs'[id].completed_at # NullDate)
         => IsTerminal(runs'[id].status)]_vars

\* C17 amended: completed_at leaves null only in a step that writes the
\* status completed or failed, or in an updateAgentRunStatus call that
\* supplies a completed_at.
C17_CompletedAtNullUnlessSupplied ==
  [][\A id \in DOMAIN runs :
       (runs[id].completed_at = NullDate /\ runs'[id].completed_at # NullDate)
         => \/ IsTerminal(runs'[id].status)
            \/ \E started_at \in TimestampInputs :
                 updateAgentRunStatus(id, runs'[id].status, started_at, CustomDate)]_vars

\* A run that was started by the clock and failed at a later instant has the
\* completed_at of that instant; another run, still pending, has none.
C17_Witness ==
  \E id, other \in DOMAIN runs :
    /\ runs[id].status = "failed"
    /\ runs[id].started_at \notin {NullDate, CustomDate}
    /\ runs[id].completed_at \notin {NullDate, CustomDate}
    /\ runs[id].completed_at > runs[id].started_at
    /\ runs[other].status = "pending"
    /\ runs[other].completed_at = NullDate

\* C18: once the status of a run is completed or failed, no later step
\* changes it.
C18_TerminalStatusIsFinal ==
  [][\A id \in DOMAIN runs :
       IsTerminal(runs[id].status) => runs'[id].status = runs[id].status]_vars

\* The started_at (or completed_at) an updateAgentRunStatus call is to leave
\* in the row: the supplied value, null included; otherwise the clock if the
\* status written is one of stamping and none is stored; otherwise the
\* stored one.
C19_Expected(supplied, stored, stamping) ==
  IF supplied # UndefinedDate THEN supplied
  ELSE IF stamping /\ stored = NullDate THEN now
  ELSE stored

\* C19: every updateAgentRunStatus call on a run leaves in started_at the
\* value supplied, null included, whatever the status and the stored value;
\* with none supplied, the clock if the new status is running and none is
\* stored, else the stored value. The same holds of completed_at, with
\* completed or failed for running.
C19_TimestampRule ==
  [][\A id \in DOMAIN runs :
       \A started_at \in TimestampInputs, completed_at \in TimestampInputs :
         updateAgentRunStatus(id, runs'[id].status, started_at, completed_at)
           => /\ runs'[id].started_at =
                   C19_Expected(started_at, runs[id].started_at,
                                runs'[id].status = "running")
              /\ runs'[id].completed_at =
                   C19_Expected(completed_at, runs[id].completed_at,
                                runs'[id].status \in {"completed", "failed"})]_vars

\* A completed run that was given the started_at of the caller and then an
\* explicit null for completed_at.
C19_Witness ==
  \E id \in DOMAIN runs :
    /\ runs[id].status = "completed"
    /\ runs[id].started_at = CustomDate
    /\ runs[id].completed_at = NullDate

\* C20: an updateAgentRunStatus call with the id of no run returns null, it
\* does not throw, and leaves every row as it was.
C20_UpdateOfNoRunReturnsNull ==
  [][\A id \in RunIds :
       (/\ id \notin DOMAIN runs
        /\ \E status \in RunStatuses,
              started_at \in TimestampInputs, completed_at \in TimestampInputs :
             UpdateAgentRunStatusCall(id, status, started_at, completed_at))
         => (outcome' = ReturnedNull /\ store' = store)]_vars

\* Null has just been returned for run 2 in a store that has run 1 only.
C20_Witness ==
  /\ outcome = ReturnedNull
  /\ DOMAIN runs = {1}
  /\ runs[1].status = "running"

\* C21: whenever started_at and completed_at of a run were both set by the
\* clock (neither is null, neither is a date a caller supplied),
\* completed_at >= started_at.
C21_CompletedNotBeforeStarted ==
  \A id \in DOMAIN runs :
    (/\ runs[id].started_at \notin {NullDate, CustomDate}
     /\ runs[id].completed_at \notin {NullDate, CustomDate})
      => runs[id].completed_at >= runs[id].started_at

\* C22: a createAgentOutput call with a run_id that no run has throws the
\* not-found error and leaves the store as it was; no output is ever
\* inserted for a run that is not there.
C22_OutputForNoRunRejected ==
  [][/\ \A run_id \in RunIds :
          (/\ run_id \notin DOMAIN runs
           /\ \E output_type \in OutTypes, timestamp \in OutputTimestampInputs :
                CreateAgentOutputCall(run_id, output_type, <<"A">>, timestamp))
            => (outcome' = RunNotFoundError(run_id) /\ store' = store)
     /\ \A i \in (1..Len(outputs')) \ (1..Len(outputs)) :
          outputs'[i].run_id \in DOMAIN runs]_vars

\* The not-found error has just been thrown for run 2, in a store where run 1
\* has an output.
C22_Witness ==
  /\ outcome = RunNotFoundError(2)
  /\ DOMAIN runs = {1}
  /\ outputs # <<>>

\* C23: a createAgentOutput call that succeeds appends one output, under an
\* id greater than every id there is, for the run of the call, and changes
\* no run and no agent; no step changes or removes an output that is there,
\* and no step but such a call adds one.
C23_OutputsOnlyAppended ==
  [][/\ \A i \in 1..Len(outputs) :
          i <= Len(outputs') /\ outputs'[i] = outputs[i]
     /\ \A run_id \in RunIds, output_type \in OutTypes,
           timestamp \in OutputTimestampInputs :
          (/\ CreateAgentOutputCall(run_id, output_type, <<"A">>, timestamp)
           /\ outcome' = ReturnedRow)
            => /\ Len(outputs') = Len(outputs) + 1
               /\ \A i \in 1..Len(outputs) :
                    outputs'[Len(outputs')].id > outputs[i].id
               /\ outputs'[Len(outputs')].run_id = run_id
               /\ outputs'[Len(outputs')].output_type = output_type
               /\ runs' = runs
               /\ agents' = agents
     /\ outputs' # outputs
          => \E run_id \in RunIds, output_type \in OutTypes,
                timestamp \in OutputTimestampInputs :
               createAgentOutput(run_id, output_type, <<"A">>, timestamp)]_vars

\* A pending run has two outputs and is still pending, without started_at.
C23_Witness ==
  \E id \in DOMAIN runs :
    /\ runs[id].status = "pending"
    /\ runs[id].started_at = NullDate
    /\ Len(outputs) >= 2
    /\ outputs[1].run_id = id
    /\ outputs[2].run_id = id

\* C24: getAgentOutputs(runId) returns, without an error, the outputs whose
\* run_id is runId, each once and no other row, in an order in which the
\* timestamp never decreases; for a run without outputs, and for a run that
\* is not there, it returns the empty list.
C24_OutputsByTimestamp ==
  [][\A runId \in RunIds :
       getAgentOutputs(runId)
         => /\ outcome'[1] = "rows"
            /\ { outcome'[2][i] : i \in 1..Len(outcome'[2]) } = StoredOutputsOf(runId)
            /\ Len(outcome'[2]) = Cardinality(StoredOutputsOf(runId))
            /\ \A i, j \in 1..Len(outcome'[2]) :
                 i < j => outcome'[2][i].timestamp <= outcome'[2][j].timestamp
            /\ (runId \notin DOMAIN runs => outcome'[2] = <<>>)]_vars

\* getAgentOutputs has just returned two outputs of a run in the order of
\* their timestamps, which is not the order of their ids, while another run
\* has an output too.
C24_Witness ==
  /\ outcome[1] = "rows"
  /\ Len(outcome[2]) = 2
  /\ outcome[2][1].id > outcome[2][2].id
  /\ outcome[2][1].timestamp < outcome[2][2].timestamp
  /\ \E i \in 1..Len(outputs) : outputs[i].run_id # outcome[2][1].run_id

\* C25: a run is inserted only while its agent exists and is active: in the
\* step that inserts the run, is_active of the agent is true, also when
\* updateAgent ran between the check of startAgentRun and its insert.
C25_RunInsertedForActiveAgent ==
  [][\A id \in DOMAIN runs' \ DOMAIN runs :
       /\ runs'[id].agent_id \in 1..Len(agents)
       /\ agents[runs'[id].agent_id].is_active]_vars

\* C26: when updateAgentRunStatus calls without explicit timestamps overlap
\* on a run, started_at and completed_at are each assigned at most once: a
\* step never changes a started_at or a completed_at that is set.
C26_SetOnceWhenOverlapping ==
  [][\A id \in DOMAIN runs :
       /\ runs[id].started_at # NullDate
            => runs'[id].started_at = runs[id].started_at
       /\ runs[id].completed_at # NullDate
            => runs'[id].completed_at = runs[id].completed_at]_vars

\* The subscription found its run at its first pull, and the run is stored
\* with the status given.
StoredWithStatus(s, status) ==
  /\ subs[s].run # <<>>
  /\ subs[s].runId \in DOMAIN runs
  /\ runs[subs[s].runId].status = status

\* The subscription has ended, and the last event it yielded is complete.
EndedWithComplete(s) ==
  /\ subs[s].pc = "done"
  /\ subs[s].events # <<>>
  /\ subs[s].events[Len(subs[s].events)].type = "complete"

\* C27: if the status of a run becomes completed, or becomes failed, and
\* stays so for ever, a subscription on that run that keeps being pulled
\* eventually yields complete and ends.
C27_CompleteOnceStatusStays ==
  \A s \in StreamSubs :
    (\/ <>[]StoredWithStatus(s, "completed")
     \/ <>[]StoredWithStatus(s, "failed")) => <>EndedWithComplete(s)

\* A subscription that started on a running run has ended with complete
\* after an output, and the run is stored as completed.
C27_Witness ==
  \E s \in StreamSubs :
    /\ StartedLive(subs[s])
    /\ subs[s].run[1].status = "running"
    /\ EndedWithComplete(s)
    /\ StoredWithStatus(s, "completed")
    /\ EventsOfType(subs[s].events, "output") # <<>>

\* C28: the final_result of complete is absent only when the run has no
\* result output: when, among the outputs complete is computed from, there
\* is one of type result, whatever its content, final_result is there.
C28_FinalResultPresentWithResult ==
  [][\A s \in Subs :
       (/\ subs[s].pc # "done" /\ subs'[s].pc = "done"
        /\ \E o \in IF subs[s].pc = "yieldAll"
                    THEN { subs[s].rows[i] : i \in 1..Len(subs[s].rows) }
                    ELSE StoredOutputsOf(subs[s].runId) :
             o.output_type = "result")
         => subs'[s].events[Len(subs'[s].events)].data.final_result
              # Undefined]_vars

\* C29: in a subscription that started on a pending or running run, the
\* event right before complete is a status_update with the status completed
\* or failed.
C29_StatusUpdateBeforeComplete ==
  \A s \in Subs :
    StartedLive(subs[s])
      => \A k \in 1..Len(subs[s].events) :
           subs[s].events[k].type = "complete"
             => /\ k > 1
                /\ subs[s].events[k - 1].type = "status_update"
                /\ IsTerminal(subs[s].events[k - 1].data.status)

\* A subscription that started on a running run has delivered an output,
\* then announced failed, then complete.
C29_Witness ==
  \E s \in Subs :
    /\ StartedLive(subs[s])
    /\ subs[s].pc = "done"
    /\ Len(subs[s].events) >= 3
    /\ subs[s].events[1].type = "output"
    /\ subs[s].events[Len(subs[s].events) - 1] =
         StatusUpdateEvent(subs[s].runId, "failed")
    /\ subs[s].events[Len(subs[s].events)].type = "complete"

\* C30: isRunning is true whenever the interval of the run started last has
\* not been cleared: nothing an earlier run left behind (a callback that
\* reads a terminal status, one whose query fails, the five-minute timer)
\* sets isRunning to false while the later run is polled.
C30_IsRunningWhilePolling ==
  (/\ dashboard.polls # <<>>
   /\ dashboard.polls[Len(dashboard.polls)].interval)
    => dashboard.isRunning

====
